---- MODULE Spec2Model ----
(***************************************************************************)
(* osquery-rs: the extension runtime of the osquery crate (the request     *)
(* dispatcher handle_call / handle_ping / handle_shutdown and the          *)
(* connection acceptor Handle::start) and the handler stubs of the older   *)
(* osquery-thrift crate.                                                   *)
(*                                                                         *)
(* A text produced by format!() is a sequence of fragments, the literal    *)
(* pieces and the interpolated values in order; the text "names" a value   *)
(* when that value is one of its fragments.  The back-quotes that the      *)
(* messages put around interpolated values are left out of the fragments.  *)
(***************************************************************************)
EXTENDS Integers, Sequences, FiniteSets, TLC

VARIABLES
    \* ---- one isolated handler invocation (SpecCall)
    request,    \* the ExtensionPluginRequest handed to handle_call
    plugin,     \* what the TablePlugin instance answers: [generate, columns]
    crate,      \* which crate's handler ran: "none", "osquery", "osquery-thrift"
    ret,        \* what the handler returned (Ok / Err / Panic), NoRet before
    invoked,    \* the plugin operations the handler invoked, in order
    op,         \* which handler ran: "none", "call", "ping", "shutdown"
    \* ---- the acceptor and its workers (Spec)
    acceptor,   \* the acceptor loop: "unstarted", "accepting", "failed" (returned Err)
    conn,       \* per connection: "idle", "pending" (in the backlog), "accepted";
                \* osquery-thrift: "relayed" (joined to the relay), "dropped"
    peerClosed, \* per connection: the peer has closed its end
    sent,       \* per connection: every message the peer wrote, in order
    nread,      \* per connection: how many of them the worker has decoded
    wpc,        \* per connection: the worker's position
    cur,        \* per connection: the message being served
    res,        \* per connection: the handler's outcome for cur
    out,        \* per connection: the replies written to the peer, in order
    wexit,      \* per connection: how the worker ended
    \* ---- registration with the host and startup (SpecReg)
    hostPath,   \* Client.socket_path: the path of the host's endpoint
    fs,         \* the file system at the derived endpoint before the bind:
                \* "free", "taken" (address in use), "noparent"
    status,     \* the host's answer to register_extension, NoRet before
    derived,    \* the outcome of deriving the endpoint, NoRet before
    handle,     \* what install / register_table returned, NoRet before
    startRet,   \* what Handle::start returned to its caller, NoRet before
    endpoint,   \* Some(path) while the socket file of the extension exists
    tpc,        \* osquery-thrift: position of the thread that start spawns
    relay,      \* osquery-thrift: the TServer thread on localhost:port
    tret,       \* osquery-thrift: what the spawned thread returned
    registry,   \* the registry sent with register_extension, None before
    \* ---- the column types (SpecCol)
    cvalue,     \* the last ColumnValue built, with the constructor used
    ctype,      \* the ColumnType that value was converted into
    column      \* the last Column built, with the constructor used

callVars == <<request, plugin, crate, ret, invoked, op>>
srvVars == <<acceptor, conn, peerClosed, sent, nread, wpc, cur, res, out, wexit>>
regVars == <<hostPath, fs, status, derived, handle, startRet, endpoint, tpc,
             relay, tret, registry>>
colVars == <<cvalue, ctype, column>>
vars == <<request, plugin, crate, ret, invoked, op,
          acceptor, conn, peerClosed, sent, nread, wpc, cur, res, out, wexit,
          hostPath, fs, status, derived, handle, startRet, endpoint, tpc,
          relay, tret, registry, cvalue, ctype, column>>

----------------------------------------------------------------------------
\* Bounds of the model
MaxConns == 2
MaxMsgs == 2

----------------------------------------------------------------------------
\* Option<T>: None is the empty sequence, Some(x) the one-element sequence
None == <<>>
Some(x) == <<x>>

\* Result<T, E>
Ok(v) == [tag |-> "Ok", val |-> v]

\* thrift::Error::Application(ApplicationError::new(kind, message))
ApplicationError(kind, message) ==
    [tag |-> "Err", class |-> "Application", kind |-> kind, message |-> message]

\* thrift::Error::Protocol(ProtocolError::new(kind, message))
ProtocolError(kind, message) ==
    [tag |-> "Err", class |-> "Protocol", kind |-> kind, message |-> message]

\* an unwinding panic (todo!(), unwrap() on Err)
Panic(message) == [tag |-> "Panic", message |-> message]

NoRet == [tag |-> "NoRet"]

\* Code::ExtSuccess as i32
ExtSuccess == 0

\* <Self as Plugin>::NAME of the plugin under test
NAME == "example_table"

----------------------------------------------------------------------------
\* Column types and values

ColumnTypes == {"Text", "Integer", "BigInt", "Double"}

\* Column::text(name), Column::integer(name), ...: Column { name, kind }
Column(name, kind) == [name |-> name, kind |-> kind]

\* ColumnValue::Text(v), ColumnValue::Integer(v), ...
ColumnValue(kind, v) == [kind |-> kind, v |-> v]

\* the Display form of a ColumnType, as the host protocol spells it
ColumnType_to_string(kind) ==
    CASE kind = "Text" -> "TEXT"
      [] kind = "Integer" -> "INTEGER"
      [] kind = "BigInt" -> "BIGINT"
      [] kind = "Double" -> "DOUBLE"

\* Column::to_pair: (name, kind)
to_pair(c) == <<c.name, c.kind>>

Digit(d) == CASE d = 0 -> "0" [] d = 1 -> "1" [] d = 2 -> "2" [] d = 3 -> "3"
              [] d = 4 -> "4" [] d = 5 -> "5" [] d = 6 -> "6" [] d = 7 -> "7"
              [] d = 8 -> "8" [] d = 9 -> "9"

RECURSIVE NatToString(_)
NatToString(n) == IF n < 10 THEN Digit(n) ELSE NatToString(n \div 10) \o Digit(n % 10)

\* i32::to_string / i64::to_string: decimal, a leading minus for negatives
IntToString(n) == IF n < 0 THEN "-" \o NatToString(0 - n) ELSE NatToString(n)

\* a finite f64, held as the shortest decimal expansion that reads back as it:
\* [neg, int, frac], frac the digits after the point (none for a whole number)
Double(neg, int, frac) == [neg |-> neg, int |-> int, frac |-> frac]

RECURSIVE DigitsToString(_)
DigitsToString(ds) ==
    IF ds = <<>> THEN "" ELSE Digit(Head(ds)) \o DigitsToString(Tail(ds))

\* f64::to_string: no exponent, no point for a whole number
DoubleToString(d) ==
    (IF d.neg THEN "-" ELSE "") \o NatToString(d.int)
        \o (IF d.frac = <<>> THEN "" ELSE "." \o DigitsToString(d.frac))

\* ColumnValue::to_string: each variant's own to_string (text is unmodified)
ColumnValue_to_string(cv) ==
    CASE cv.kind = "Text" -> cv.v
      [] cv.kind = "Integer" -> IntToString(cv.v)
      [] cv.kind = "BigInt" -> IntToString(cv.v)
      [] cv.kind = "Double" -> DoubleToString(cv.v)

----------------------------------------------------------------------------
\* Requests

Absent == "<absent>"

GoodContext == "{\"constraints\":[]}"
BadContext == "not json"

ActionValues == {"generate", "columns", "unknown"}
ContextValues == {GoodContext, BadContext}
ExtraValues == {"x"}

\* a string-to-string map holding the given keys (Absent: the key is missing)
MkRequest(a, c, x) ==
    [k \in {kk \in {"action", "context", "extra"} :
                \/ kk = "action" /\ a # Absent
                \/ kk = "context" /\ c # Absent
                \/ kk = "extra" /\ x # Absent}
        |-> CASE k = "action" -> a [] k = "context" -> c [] k = "extra" -> x]

Requests ==
    { MkRequest(a, c, x) : a \in ActionValues \cup {Absent},
                           c \in ContextValues \cup {Absent},
                           x \in ExtraValues \cup {Absent} }

\* BTreeMap::remove(key): the value if any, and the map without the key
Remove(req, key) ==
    [value |-> IF key \in DOMAIN req THEN Some(req[key]) ELSE None,
     rest |-> [k \in DOMAIN req \ {key} |-> req[k]]]

\* serde_json::from_str::<QueryContext>(data)
from_str(data) ==
    IF data = GoodContext
    THEN Ok([constraints |-> <<>>])
    ELSE [tag |-> "Err", message |-> "expected value at line 1 column 1"]

----------------------------------------------------------------------------
\* What a TablePlugin may answer

Row1 == [c \in {"text", "integer", "big_int"} |->
            CASE c = "text" -> ColumnValue("Text", "hello_world")
              [] c = "integer" -> ColumnValue("Integer", 123)
              [] c = "big_int" -> ColumnValue("BigInt", 0 - 123456789)]
Row2 == [c \in {"text", "integer"} |->
            CASE c = "text" -> ColumnValue("Text", "")
              [] c = "integer" -> ColumnValue("Integer", 0 - 7)]

\* the row of the example table, with std::f64::consts::PI
RowPi == [c \in {"text", "integer", "big_int", "double"} |->
            CASE c = "text" -> ColumnValue("Text", "hello_world")
              [] c = "integer" -> ColumnValue("Integer", 123)
              [] c = "big_int" -> ColumnValue("BigInt", 0 - 123456789)
              [] c = "double" -> ColumnValue("Double",
                     Double(FALSE, 3, <<1, 4, 1, 5, 9, 2, 6, 5, 3, 5, 8, 9, 7, 9, 3>>))]
Row3 == [c \in {"double", "whole"} |->
            CASE c = "double" -> ColumnValue("Double", Double(TRUE, 0, <<5>>))
              [] c = "whole" -> ColumnValue("Double", Double(FALSE, 2, <<>>))]

PluginErr(message) == [tag |-> "Err", message |-> message]

GenerateOutcomes ==
    { Ok(<<>>), Ok(<<Row1>>), Ok(<<Row2, Row1>>), Ok(<<RowPi>>), Ok(<<Row3, Row2, Row3>>),
      PluginErr("data source unavailable") }

ColumnsOutcomes ==
    { Ok(<<>>),
      Ok(<<Column("text", "Text")>>),
      Ok(<<Column("text", "Text"), Column("integer", "Integer"),
           Column("big_int", "BigInt"), Column("double", "Double")>>),
      Ok(<<Column("b", "Integer"), Column("a", "Integer")>>),
      PluginErr("schema unavailable") }

Plugins == [generate : GenerateOutcomes, columns : ColumnsOutcomes]

----------------------------------------------------------------------------
\* osquery: impl ExtensionSyncHandler for T: TablePlugin

\* the get_field closure of handle_call: request.remove(key).ok_or_else(..)
get_field(req, key) ==
    LET r == Remove(req, key) IN
    [rest |-> r.rest,
     res |-> IF r.value = None
             THEN ApplicationError("ProtocolError",
                      <<"request to ", NAME, " missing required field ", key>>)
             ELSE Ok(r.value[1])]

\* a generate arm that collects the rows back to front
generate_output_reversed(rows) ==
    [i \in 1..Len(rows) |->
        [k \in DOMAIN rows[Len(rows) + 1 - i] |->
            ColumnValue_to_string(rows[Len(rows) + 1 - i][k])]]

\* the "generate" arm after the plugin answered Ok(rows):
\* every row's (k, v) becomes (k, v.to_string())
generate_output(rows) ==
    [i \in 1..Len(rows) |-> [k \in DOMAIN rows[i] |-> ColumnValue_to_string(rows[i][k])]]

\* a columns arm that forgets val.to_string() and stores the kind itself
columns_output_raw(cols) ==
    [i \in 1..Len(cols) |->
        [k \in {"name", "type"} |->
            IF k = "name" THEN to_pair(cols[i])[1] ELSE to_pair(cols[i])[2]]]

\* the "columns" arm after the plugin answered Ok(cols):
\* btreemap!{ "name" => key, "type" => val.to_string() } for (key, val) = c.to_pair()
columns_output(cols) ==
    [i \in 1..Len(cols) |->
        [k \in {"name", "type"} |->
            IF k = "name" THEN to_pair(cols[i])[1]
                          ELSE ColumnType_to_string(to_pair(cols[i])[2])]]

\* a response that sets the status and leaves the payload out
Response_no_payload(output) ==
    [status |-> Some([code |-> Some(ExtSuccess), message |-> None, uuid |-> None]),
     response |-> None]

\* Response { status: Some(Status { code: Some(ExtSuccess), .. }), response: Some(output) }
Response(output) ==
    [status |-> Some([code |-> Some(ExtSuccess), message |-> None, uuid |-> None]),
     response |-> Some(output)]

\* a map_err that reuses the ProtocolError kind of the neighbouring closures
plugin_error_as_protocol(e) == ApplicationError("ProtocolError", <<e.message>>)

\* .map_err(|e| Application(ApplicationError::new(InternalError, e.to_string())))
plugin_error(e) == ApplicationError("InternalError", <<e.message>>)

\* the match on action.as_str(), reached with a decoded query
dispatch_action(action, query, plug) ==
    CASE action = "generate" ->
            [invoked |-> <<"generate">>,
             ret |-> IF plug.generate.tag = "Err"
                     THEN plugin_error(plug.generate)
                     ELSE Ok(Response(generate_output(plug.generate.val)))]
      [] action = "columns" ->
            [invoked |-> <<"columns">>,
             ret |-> IF plug.columns.tag = "Err"
                     THEN plugin_error(plug.columns)
                     ELSE Ok(Response(columns_output(plug.columns.val)))]
      [] OTHER ->
            [invoked |-> <<>>,
             ret |-> ProtocolError("NotImplemented",
                         <<"action ", action, " not supported on plugin type ", "table">>)]

\* handle_call(_registry, _item, request): [ret, invoked]
handle_call(req, plug) ==
    LET action == get_field(req, "action") IN
    IF action.res.tag = "Err" THEN [ret |-> action.res, invoked |-> <<>>] ELSE
    LET context_data == get_field(action.rest, "context") IN
    IF context_data.res.tag = "Err" THEN [ret |-> context_data.res, invoked |-> <<>>] ELSE
    LET query == from_str(context_data.res.val) IN
    IF query.tag = "Err"
    THEN [ret |-> ApplicationError("ProtocolError",
                      <<"got error deserializing context: ", query.message, "\n",
                        context_data.res.val>>),
          invoked |-> <<>>]
    ELSE dispatch_action(action.res.val, query.val, plug)

\* a ping that answers with a route id of its own
handle_ping_with_route ==
    [ret |-> Ok([code |-> Some(ExtSuccess), message |-> Some("OK"), uuid |-> Some(0)]),
     invoked |-> <<>>]

\* handle_ping: Ok(ExtensionStatus { code: Some(ExtSuccess), message: Some("OK"), uuid: None })
handle_ping ==
    [ret |-> Ok([code |-> Some(ExtSuccess), message |-> Some("OK"), uuid |-> None]),
     invoked |-> <<>>]

\* handle_shutdown: let _ = self.shutdown(); Ok(())
handle_shutdown == [ret |-> Ok("()"), invoked |-> <<"shutdown">>]

----------------------------------------------------------------------------
\* osquery-thrift: impl ExtensionSyncHandler for T: TablePlugin

\* handle_ping: the same status as in the osquery crate
thrift_handle_ping ==
    [ret |-> Ok([code |-> Some(ExtSuccess), message |-> Some("OK"), uuid |-> None]),
     invoked |-> <<>>]

\* handle_shutdown: todo!()
thrift_handle_shutdown == [ret |-> Panic("not yet implemented"), invoked |-> <<>>]

\* handle_call: context is required, its decode result is bound and dropped
\* (never propagated), then todo!()
thrift_handle_call(req, plug) ==
    LET data == Remove(req, "context") IN
    IF data.value = None
    THEN [ret |-> ApplicationError("ProtocolError",
                      <<"request to ", NAME, " missing required field context">>),
          invoked |-> <<>>]
    ELSE [ret |-> Panic("not yet implemented"), invoked |-> <<>>]

----------------------------------------------------------------------------
\* Registration with the host, and the endpoint of the extension

\* std::io::Error::new(kind, message)
IoError(kind, message) ==
    [tag |-> "Err", class |-> "Io", kind |-> kind, message |-> message]

\* thrift::Error::Transport(TransportError::new(kind, message))
TransportError(kind, message) ==
    [tag |-> "Err", class |-> "Transport", kind |-> kind, message |-> message]

\* the ? of install on an io::Error: thrift's From<io::Error> makes it a
\* transport error (of kind Unknown for InvalidData)
from_io_error(e) == TransportError("Unknown", e.message)

\* a path: whether it starts at the root, and its components in order
Path(root, comps) == [root |-> root, comps |-> comps]

ShellEm == Path(TRUE, <<"home", "user", ".host", "shell.em">>)

HostPaths ==
    { ShellEm,
      Path(FALSE, <<"osquery.em">>),
      Path(TRUE, <<>>),
      Path(FALSE, <<>>),
      Path(TRUE, <<"var", "..">>) }

\* Path::to_string_lossy
PathToString(p) ==
    LET RECURSIVE Join(_)
        Join(cs) == IF Len(cs) = 0 THEN ""
                    ELSE IF Len(cs) = 1 THEN cs[1]
                    ELSE cs[1] \o "/" \o Join(Tail(cs))
    IN (IF p.root THEN "/" ELSE "") \o Join(p.comps)

\* Path::file_name: the final component, unless the path has none or ends
\* in ..
file_name(p) ==
    IF p.comps = <<>> \/ p.comps[Len(p.comps)] = ".."
    THEN None
    ELSE Some(p.comps[Len(p.comps)])

\* PathBuf::push of a relative name
push(p, name) == Path(p.root, Append(p.comps, name))

\* PathBuf::set_file_name: the final component is replaced
set_file_name(p, name) ==
    IF file_name(p) = None
    THEN push(p, name)
    ELSE push(Path(p.root, SubSeq(p.comps, 1, Len(p.comps) - 1)), name)

\* name.push(&format!(".{}", uuid))
endpoint_name(name, uuid) == name \o "." \o IntToString(uuid)

\* a derivation that pushes the new name below the host path
socket_path_pushed(p, uuid) ==
    IF file_name(p) = None
    THEN IoError("InvalidData", <<PathToString(p)>>)
    ELSE Ok(push(p, endpoint_name(file_name(p)[1], uuid)))

\* osquery: Client::socket_path
socket_path(p, uuid) ==
    IF file_name(p) = None
    THEN IoError("InvalidData", <<PathToString(p)>>)
    ELSE Ok(set_file_name(p, endpoint_name(file_name(p)[1], uuid)))

\* osquery-thrift: the derivation at the head of the thread of Handle::start
thrift_socket_path(p, uuid) ==
    IF file_name(p) = None
    THEN TransportError("NotOpen", <<"Invalid osquery socket path ", PathToString(p)>>)
    ELSE Ok(set_file_name(p, endpoint_name(file_name(p)[1], uuid)))

\* ExtensionStatus
ExtensionStatus(code, message, uuid) ==
    [code |-> code, message |-> message, uuid |-> uuid]

\* what the host can answer to register_extension
HostReplies ==
    { Ok(ExtensionStatus(Some(ExtSuccess), Some("OK"), Some(42))),
      Ok(ExtensionStatus(Some(ExtSuccess), Some("OK"), None)),
      Ok(ExtensionStatus(Some(1), Some("Duplicate extension"), None)),
      Ok(ExtensionStatus(Some(1), Some("Duplicate extension"), Some(7))),
      Ok(ExtensionStatus(None, None, Some(-3))),
      TransportError("EndOfFile", <<"host closed the connection">>) }

\* the port of the relay
DefaultPort == 8080

\* the serialized form of a ColumnType in a route descriptor
ColumnType_serialize(kind) == ColumnType_to_string(kind)

\* json!({ "id": "column", "name": col.name, "type": col.kind, "op": "0" })
\* read back as a map of strings
route(col) ==
    [k \in {"id", "name", "type", "op"} |->
        CASE k = "id" -> "column"
          [] k = "name" -> col.name
          [] k = "type" -> ColumnType_serialize(col.kind)
          [] k = "op" -> "0"]

\* osquery: Routes::routes: no route at all when columns() fails
routes(plug) ==
    IF plug.columns.tag = "Err"
    THEN <<>>
    ELSE [i \in 1..Len(plug.columns.val) |-> route(plug.columns.val[i])]

\* osquery-thrift: Routes::routes, from the constant COLUMNS
thrift_routes(cols) == [i \in 1..Len(cols) |-> route(cols[i])]

\* json!({ "table": { name: routes } })
Registry(name, rts) == [t \in {"table"} |-> [n \in {name} |-> rts]]

\* the key under which register_table files every table
ThriftRegistryKey == "example_plugin"

NoUuid == ApplicationError("ProtocolError", <<"Got no UUID from osquery">>)

\* an install that takes a missing route id for 0
install_uuid_defaulted(p, reply) ==
    IF reply.tag # "Ok"
    THEN [derived |-> NoRet, handle |-> reply]
    ELSE LET uuid == IF reply.val.uuid = None THEN 0 ELSE reply.val.uuid[1]
             d == socket_path(p, uuid)
         IN [derived |-> d,
             handle |-> IF d.tag = "Ok" THEN Ok([socket_path |-> d.val])
                        ELSE from_io_error(d)]

\* osquery: Plugin::install, from the answer of the host on
install(p, reply) ==
    IF reply.tag # "Ok"
    THEN [derived |-> NoRet, handle |-> reply]
    ELSE IF reply.val.uuid = None
    THEN [derived |-> NoRet, handle |-> NoUuid]
    ELSE LET d == socket_path(p, reply.val.uuid[1])
         IN [derived |-> d,
             handle |-> IF d.tag = "Ok" THEN Ok([socket_path |-> d.val])
                        ELSE from_io_error(d)]

\* osquery-thrift: Client::register_table, from the answer of the host on;
\* the Handle keeps the host path, the port and the route id
register_table(p, reply) ==
    IF reply.tag # "Ok"
    THEN reply
    ELSE IF reply.val.uuid = None
    THEN NoUuid
    ELSE Ok([socket_path |-> p, port |-> DefaultPort, uuid |-> reply.val.uuid[1]])

\* the state once an extension is registered and its listener is bound
RegStarted ==
    /\ hostPath = ShellEm
    /\ fs = "free"
    /\ status = Ok(ExtensionStatus(Some(ExtSuccess), Some("OK"), Some(42)))
    /\ derived = socket_path(hostPath, 42)
    /\ handle = Ok([socket_path |-> derived.val])
    /\ startRet = Ok("JoinHandle")
    /\ endpoint = Some(derived.val)
    /\ tpc = "none"
    /\ relay = "none"
    /\ tret = NoRet
    /\ registry = Some(Registry(NAME, routes(plugin)))

\* no column value and no column built yet
ColIdle ==
    /\ cvalue = None
    /\ ctype = None
    /\ column = None

----------------------------------------------------------------------------
\* SpecCall: one handler invocation on an arbitrary request and plugin

Conns == 1..MaxConns

SrvIdle ==
    /\ acceptor = "accepting"
    /\ conn = [c \in Conns |-> "idle"]
    /\ peerClosed = [c \in Conns |-> FALSE]
    /\ sent = [c \in Conns |-> <<>>]
    /\ nread = [c \in Conns |-> 0]
    /\ wpc = [c \in Conns |-> "none"]
    /\ cur = [c \in Conns |-> None]
    /\ res = [c \in Conns |-> NoRet]
    /\ out = [c \in Conns |-> <<>>]
    /\ wexit = [c \in Conns |-> "none"]

InitCall ==
    /\ request \in Requests
    /\ plugin \in Plugins
    /\ crate = "none"
    /\ op = "none"
    /\ ret = NoRet
    /\ invoked = <<>>
    /\ SrvIdle
    /\ RegStarted
    /\ ColIdle

CallOsquery ==
    /\ crate = "none"
    /\ crate' = "osquery"
    /\ op' = "call"
    /\ ret' = handle_call(request, plugin).ret
    /\ invoked' = handle_call(request, plugin).invoked
    /\ UNCHANGED <<request, plugin>>
    /\ UNCHANGED srvVars
    /\ UNCHANGED regVars
    /\ UNCHANGED colVars

CallThrift ==
    /\ crate = "none"
    /\ crate' = "osquery-thrift"
    /\ op' = "call"
    /\ ret' = thrift_handle_call(request, plugin).ret
    /\ invoked' = thrift_handle_call(request, plugin).invoked
    /\ UNCHANGED <<request, plugin>>
    /\ UNCHANGED srvVars
    /\ UNCHANGED regVars
    /\ UNCHANGED colVars

PingOsquery ==
    /\ crate = "none"
    /\ crate' = "osquery"
    /\ op' = "ping"
    /\ ret' = handle_ping.ret
    /\ invoked' = handle_ping.invoked
    /\ UNCHANGED <<request, plugin>>
    /\ UNCHANGED srvVars
    /\ UNCHANGED regVars
    /\ UNCHANGED colVars

PingThrift ==
    /\ crate = "none"
    /\ crate' = "osquery-thrift"
    /\ op' = "ping"
    /\ ret' = thrift_handle_ping.ret
    /\ invoked' = thrift_handle_ping.invoked
    /\ UNCHANGED <<request, plugin>>
    /\ UNCHANGED srvVars
    /\ UNCHANGED regVars
    /\ UNCHANGED colVars

ShutdownOsquery ==
    /\ crate = "none"
    /\ crate' = "osquery"
    /\ op' = "shutdown"
    /\ ret' = handle_shutdown.ret
    /\ invoked' = handle_shutdown.invoked
    /\ UNCHANGED <<request, plugin>>
    /\ UNCHANGED srvVars
    /\ UNCHANGED regVars
    /\ UNCHANGED colVars

ShutdownThrift ==
    /\ crate = "none"
    /\ crate' = "osquery-thrift"
    /\ op' = "shutdown"
    /\ ret' = thrift_handle_shutdown.ret
    /\ invoked' = thrift_handle_shutdown.invoked
    /\ UNCHANGED <<request, plugin>>
    /\ UNCHANGED srvVars
    /\ UNCHANGED regVars
    /\ UNCHANGED colVars

NextCall ==
    \/ CallOsquery
    \/ CallThrift
    \/ PingOsquery
    \/ PingThrift
    \/ ShutdownOsquery
    \/ ShutdownThrift

SpecCall == InitCall /\ [][NextCall]_vars

----------------------------------------------------------------------------
\* osquery: the messages on a connection and the generated processor

\* what a peer may write on a connection: thrift messages, numbered by the
\* peer, or bytes that are no thrift message
WireRequests ==
    { MkRequest(Absent, GoodContext, Absent),
      MkRequest("unknown", GoodContext, Absent),
      MkRequest("generate", BadContext, Absent),
      MkRequest("generate", GoodContext, Absent),
      MkRequest("columns", GoodContext, Absent) }

Garbage == [method |-> "garbage"]

Call(seq, req) == [method |-> "call", seq |-> seq, request |-> req]

Messages(seq) ==
    { Call(seq, r) : r \in WireRequests }
    \cup { [method |-> "ping", seq |-> seq], [method |-> "shutdown", seq |-> seq], Garbage }

\* the messages of the runs with several connections: a call that reaches
\* the plugin (answered by a reply or, when the plugin fails, by an
\* exception), and bytes that are no message
ClassMessages(seq) ==
    { Call(seq, MkRequest("generate", GoodContext, Absent)),
      Garbage }

\* the answers of the shared plugin instance a worker may meet at a dispatch
SrvPlugins ==
    [generate : {Ok(<<Row1>>), PluginErr("data source unavailable")},
     columns : {Ok(<<Column("text", "Text")>>)}]

\* ExtensionSyncProcessor: the handler the message names
handler_result(m, plug) ==
    CASE m.method = "call" -> handle_call(m.request, plug).ret
      [] m.method = "ping" -> handle_ping.ret
      [] m.method = "shutdown" -> handle_shutdown.ret

\* ExtensionSyncProcessor: the message written for a handler result; a fault
\* is written as an exception message (an error that is no ApplicationError
\* as an ApplicationError of kind Unknown carrying its text), with the
\* sequence number of the incoming message
reply_for(m, r) ==
    IF r.tag = "Ok"
    THEN [seq |-> m.seq, method |-> m.method, type |-> "Reply", body |-> r.val]
    ELSE [seq |-> m.seq, method |-> m.method, type |-> "Exception",
          body |-> IF r.class = "Application"
                   THEN [kind |-> r.kind, message |-> r.message]
                   ELSE [kind |-> "Unknown", message |-> r.message]]

----------------------------------------------------------------------------
\* osquery: Handle::start, after the listener is bound

TotalSent == LET RECURSIVE Sum(_)
                 Sum(n) == IF n = 0 THEN 0 ELSE Len(sent[n]) + Sum(n - 1)
             IN Sum(MaxConns)

Init ==
    /\ request = <<>>
    /\ plugin = CHOOSE plug \in SrvPlugins : plug.generate.tag = "Ok"
    /\ crate = "none"
    /\ op = "none"
    /\ ret = NoRet
    /\ invoked = <<>>
    /\ SrvIdle
    /\ RegStarted
    /\ ColIdle

\* a peer connects to the socket: the connection waits in the backlog
\* (connections are numbered in the order in which they connect)
Connect(c) ==
    /\ acceptor = "accepting"
    /\ conn[c] = "idle"
    /\ \A d \in Conns : d < c => conn[d] # "idle"
    /\ conn' = [conn EXCEPT ![c] = "pending"]
    /\ UNCHANGED <<acceptor, peerClosed, sent, nread, wpc, cur, res, out, wexit>>
    /\ UNCHANGED callVars
    /\ UNCHANGED regVars
    /\ UNCHANGED colVars

\* a connected peer writes one more message
SendFrom(c, msgs) ==
    /\ conn[c] # "idle"
    /\ ~peerClosed[c]
    /\ TotalSent < MaxMsgs
    /\ \E m \in msgs : sent' = [sent EXCEPT ![c] = Append(@, m)]
    /\ UNCHANGED <<acceptor, conn, peerClosed, nread, wpc, cur, res, out, wexit>>
    /\ UNCHANGED callVars
    /\ UNCHANGED regVars
    /\ UNCHANGED colVars

Send(c) == SendFrom(c, ClassMessages(Len(sent[c]) + 1))

SendAny(c) == SendFrom(c, Messages(Len(sent[c]) + 1))

\* a connected peer closes its end
PeerClose(c) ==
    /\ conn[c] # "idle"
    /\ ~peerClosed[c]
    /\ peerClosed' = [peerClosed EXCEPT ![c] = TRUE]
    /\ UNCHANGED <<acceptor, conn, sent, nread, wpc, cur, res, out, wexit>>
    /\ UNCHANGED callVars
    /\ UNCHANGED regVars
    /\ UNCHANGED colVars

\* an acceptor that serves a connection itself and comes back to the
\* listener only when that connection has ended
Accept_after_worker(c) ==
    /\ acceptor = "accepting"
    /\ crate # "osquery-thrift"
    /\ conn[c] = "pending"
    /\ \A d \in Conns : d < c => (conn[d] = "accepted" /\ wpc[d] = "done")
    /\ conn' = [conn EXCEPT ![c] = "accepted"]
    /\ wpc' = [wpc EXCEPT ![c] = "setup"]
    /\ UNCHANGED <<acceptor, peerClosed, sent, nread, cur, res, out, wexit>>
    /\ UNCHANGED callVars
    /\ UNCHANGED regVars
    /\ UNCHANGED colVars

\* for sock in unix_listener.incoming(): Ok(stream) => spawn the worker
\* (the backlog hands connections out in the order in which they connected)
Accept(c) ==
    /\ acceptor = "accepting"
    /\ crate # "osquery-thrift"
    /\ conn[c] = "pending"
    /\ \A d \in Conns : d < c => conn[d] = "accepted"
    /\ conn' = [conn EXCEPT ![c] = "accepted"]
    /\ wpc' = [wpc EXCEPT ![c] = "setup"]
    /\ UNCHANGED <<acceptor, peerClosed, sent, nread, cur, res, out, wexit>>
    /\ UNCHANGED callVars
    /\ UNCHANGED regVars
    /\ UNCHANGED colVars

\* an accept error that ends the workers together with the acceptor
AcceptError_ends_workers ==
    /\ acceptor = "accepting"
    /\ acceptor' = "failed"
    /\ wpc' = [c \in Conns |-> IF wpc[c] = "none" THEN "none" ELSE "done"]
    /\ wexit' = [c \in Conns |-> IF wpc[c] \in {"none", "done"} THEN wexit[c] ELSE "error"]
    /\ UNCHANGED <<conn, peerClosed, sent, nread, cur, res, out>>
    /\ UNCHANGED callVars
    /\ UNCHANGED regVars
    /\ UNCHANGED colVars

\* for sock in unix_listener.incoming(): Err(e) => return Err(e.into())
AcceptError ==
    /\ acceptor = "accepting"
    /\ acceptor' = "failed"
    /\ UNCHANGED <<conn, peerClosed, sent, nread, wpc, cur, res, out, wexit>>
    /\ UNCHANGED callVars
    /\ UNCHANGED regVars
    /\ UNCHANGED colVars

\* the worker builds its transports: stream.try_clone()? succeeds
WorkerSetup(c) ==
    /\ wpc[c] = "setup"
    /\ wpc' = [wpc EXCEPT ![c] = "decode"]
    /\ UNCHANGED <<acceptor, conn, peerClosed, sent, nread, cur, res, out, wexit>>
    /\ UNCHANGED callVars
    /\ UNCHANGED regVars
    /\ UNCHANGED colVars

\* stream.try_clone()? fails: the worker thread returns the error
WorkerSetupFail(c) ==
    /\ wpc[c] = "setup"
    /\ wpc' = [wpc EXCEPT ![c] = "done"]
    /\ wexit' = [wexit EXCEPT ![c] = "clone_failed"]
    /\ UNCHANGED <<acceptor, conn, peerClosed, sent, nread, cur, res, out>>
    /\ UNCHANGED callVars
    /\ UNCHANGED regVars
    /\ UNCHANGED colVars

\* a decode step whose error takes the acceptor down with the worker
WorkerDecode_fatal(c) ==
    /\ wpc[c] = "decode"
    /\ IF nread[c] < Len(sent[c])
       THEN /\ nread' = [nread EXCEPT ![c] = @ + 1]
            /\ IF sent[c][nread[c] + 1] = Garbage
               THEN /\ wpc' = [wpc EXCEPT ![c] = "done"]
                    /\ wexit' = [wexit EXCEPT ![c] = "error"]
                    /\ cur' = cur
                    /\ acceptor' = "failed"
               ELSE /\ wpc' = [wpc EXCEPT ![c] = "dispatch"]
                    /\ cur' = [cur EXCEPT ![c] = Some(sent[c][nread[c] + 1])]
                    /\ wexit' = wexit
                    /\ acceptor' = acceptor
       ELSE /\ peerClosed[c]
            /\ wpc' = [wpc EXCEPT ![c] = "done"]
            /\ wexit' = [wexit EXCEPT ![c] = "eof"]
            /\ acceptor' = acceptor
            /\ UNCHANGED <<nread, cur>>
    /\ UNCHANGED <<conn, peerClosed, sent, res, out>>
    /\ UNCHANGED callVars
    /\ UNCHANGED regVars
    /\ UNCHANGED colVars

\* a decode step that also runs while a reply is still to be written, so
\* that the next call overtakes it
WorkerDecode_pipelined(c) ==
    /\ wpc[c] \in {"decode", "encode"}
    /\ IF nread[c] < Len(sent[c])
       THEN /\ nread' = [nread EXCEPT ![c] = @ + 1]
            /\ IF sent[c][nread[c] + 1] = Garbage
               THEN /\ wpc' = [wpc EXCEPT ![c] = "done"]
                    /\ wexit' = [wexit EXCEPT ![c] = "error"]
                    /\ cur' = cur
               ELSE /\ wpc' = [wpc EXCEPT ![c] = "dispatch"]
                    /\ cur' = [cur EXCEPT ![c] = Some(sent[c][nread[c] + 1])]
                    /\ wexit' = wexit
       ELSE /\ peerClosed[c]
            /\ wpc' = [wpc EXCEPT ![c] = "done"]
            /\ wexit' = [wexit EXCEPT ![c] = "eof"]
            /\ UNCHANGED <<nread, cur>>
    /\ acceptor' = acceptor
    /\ UNCHANGED <<conn, peerClosed, sent, res, out>>
    /\ UNCHANGED callVars
    /\ UNCHANGED regVars
    /\ UNCHANGED colVars

\* processor.process reads the next message: a message is decoded; bytes
\* that are no message are an error (warn!, break); nothing left and the peer
\* gone is EndOfFile (break); nothing left and the peer there blocks
WorkerDecode(c) ==
    /\ wpc[c] = "decode"
    /\ IF nread[c] < Len(sent[c])
       THEN /\ nread' = [nread EXCEPT ![c] = @ + 1]
            /\ IF sent[c][nread[c] + 1] = Garbage
               THEN /\ wpc' = [wpc EXCEPT ![c] = "done"]
                    /\ wexit' = [wexit EXCEPT ![c] = "error"]
                    /\ cur' = cur
               ELSE /\ wpc' = [wpc EXCEPT ![c] = "dispatch"]
                    /\ cur' = [cur EXCEPT ![c] = Some(sent[c][nread[c] + 1])]
                    /\ wexit' = wexit
       ELSE /\ peerClosed[c]
            /\ wpc' = [wpc EXCEPT ![c] = "done"]
            /\ wexit' = [wexit EXCEPT ![c] = "eof"]
            /\ UNCHANGED <<nread, cur>>
    /\ acceptor' = acceptor
    /\ UNCHANGED <<conn, peerClosed, sent, res, out>>
    /\ UNCHANGED callVars
    /\ UNCHANGED regVars
    /\ UNCHANGED colVars

\* processor.process runs the handler on the decoded message
WorkerDispatch(c) ==
    /\ wpc[c] = "dispatch"
    /\ \E plug \in SrvPlugins :
          res' = [res EXCEPT ![c] = handler_result(cur[c][1], plug)]
    /\ wpc' = [wpc EXCEPT ![c] = "encode"]
    /\ UNCHANGED <<acceptor, conn, peerClosed, sent, nread, cur, out, wexit>>
    /\ UNCHANGED callVars
    /\ UNCHANGED regVars
    /\ UNCHANGED colVars

\* an encode step of workers that share one output protocol, the one of the
\* first connection
WorkerEncode_shared_output(c) ==
    /\ wpc[c] = "encode"
    /\ out' = [out EXCEPT ![1] = Append(@, reply_for(cur[c][1], res[c]))]
    /\ wpc' = [wpc EXCEPT ![c] = "decode"]
    /\ cur' = [cur EXCEPT ![c] = None]
    /\ res' = [res EXCEPT ![c] = NoRet]
    /\ wexit' = wexit
    /\ UNCHANGED <<acceptor, conn, peerClosed, sent, nread>>
    /\ UNCHANGED callVars
    /\ UNCHANGED regVars
    /\ UNCHANGED colVars

\* an encode step that hands a handler fault to the loop as an error: the
\* exception is written and the loop breaks
WorkerEncode_break_on_fault(c) ==
    /\ wpc[c] = "encode"
    /\ out' = [out EXCEPT ![c] = Append(@, reply_for(cur[c][1], res[c]))]
    /\ wpc' = [wpc EXCEPT ![c] = IF res[c].tag = "Err" THEN "done" ELSE "decode"]
    /\ wexit' = [wexit EXCEPT ![c] = IF res[c].tag = "Err" THEN "error" ELSE @]
    /\ cur' = [cur EXCEPT ![c] = None]
    /\ res' = [res EXCEPT ![c] = NoRet]
    /\ UNCHANGED <<acceptor, conn, peerClosed, sent, nread>>
    /\ UNCHANGED callVars
    /\ UNCHANGED regVars
    /\ UNCHANGED colVars

\* processor.process writes the reply or the exception and returns Ok: the
\* loop goes round
WorkerEncode(c) ==
    /\ wpc[c] = "encode"
    /\ out' = [out EXCEPT ![c] = Append(@, reply_for(cur[c][1], res[c]))]
    /\ wpc' = [wpc EXCEPT ![c] = "decode"]
    /\ cur' = [cur EXCEPT ![c] = None]
    /\ res' = [res EXCEPT ![c] = NoRet]
    /\ wexit' = wexit
    /\ UNCHANGED <<acceptor, conn, peerClosed, sent, nread>>
    /\ UNCHANGED callVars
    /\ UNCHANGED regVars
    /\ UNCHANGED colVars

\* the write fails because the peer is gone: process returns the transport
\* error (warn!, break)
WorkerEncodeFail(c) ==
    /\ wpc[c] = "encode"
    /\ peerClosed[c]
    /\ wpc' = [wpc EXCEPT ![c] = "done"]
    /\ wexit' = [wexit EXCEPT ![c] = "error"]
    /\ UNCHANGED <<acceptor, conn, peerClosed, sent, nread, cur, res, out>>
    /\ UNCHANGED callVars
    /\ UNCHANGED regVars
    /\ UNCHANGED colVars

Next ==
    \/ AcceptError
    \/ \E c \in Conns :
          \/ Connect(c)
          \/ Send(c)
          \/ PeerClose(c)
          \/ Accept(c)
          \/ WorkerSetup(c)
          \/ WorkerSetupFail(c)
          \/ WorkerDecode(c)
          \/ WorkerDispatch(c)
          \/ WorkerEncode(c)
          \/ WorkerEncodeFail(c)

Spec == Init /\ [][Next]_vars

\* one connection, and every kind of message on it
NextConn ==
    \/ Connect(1)
    \/ SendAny(1)
    \/ PeerClose(1)
    \/ Accept(1)
    \/ WorkerSetup(1)
    \/ WorkerSetupFail(1)
    \/ WorkerDecode(1)
    \/ WorkerDispatch(1)
    \/ WorkerEncode(1)
    \/ WorkerEncodeFail(1)

SpecConn == Init /\ [][NextConn]_vars

----------------------------------------------------------------------------
\* SpecStall: the first connection is accepted and never sends anything; the
\* other connections send complete calls.  The acceptor and every worker are
\* threads of their own, so each of their steps is taken at some time when it
\* stays possible.

\* complete calls: one that faults in the handler, one that reaches the
\* plugin, and a ping
CompleteCalls(seq) ==
    { Call(seq, MkRequest(Absent, GoodContext, Absent)),
      Call(seq, MkRequest("generate", GoodContext, Absent)),
      [method |-> "ping", seq |-> seq] }

\* a peer other than the first writes one more complete call
SendCall(c) ==
    /\ c # 1
    /\ SendFrom(c, CompleteCalls(Len(sent[c]) + 1))

NextStall ==
    \E c \in Conns :
        \/ Connect(c)
        \/ SendCall(c)
        \/ Accept(c)
        \/ WorkerSetup(c)
        \/ WorkerDecode(c)
        \/ WorkerDispatch(c)
        \/ WorkerEncode(c)

SpecStall ==
    /\ Init
    /\ [][NextStall]_vars
    /\ \A c \in Conns :
          /\ WF_vars(Accept(c))
          /\ WF_vars(WorkerSetup(c))
          /\ WF_vars(WorkerDecode(c))
          /\ WF_vars(WorkerDispatch(c))
          /\ WF_vars(WorkerEncode(c))

----------------------------------------------------------------------------
\* SpecReg: registration with the host, Handle::start, and the first
\* connection, in either crate

\* the plugins that register: any schema, or no schema at all; the COLUMNS
\* of an osquery-thrift table are a constant
RegPlugins == [generate : {Ok(<<Row1>>)}, columns : ColumnsOutcomes]

InitReg ==
    /\ request = <<>>
    /\ crate \in {"osquery", "osquery-thrift"}
    /\ plugin \in RegPlugins
    /\ crate = "osquery-thrift" => plugin.columns.tag = "Ok"
    /\ op = "none"
    /\ ret = NoRet
    /\ invoked = <<>>
    /\ acceptor = "unstarted"
    /\ conn = [c \in Conns |-> "idle"]
    /\ peerClosed = [c \in Conns |-> FALSE]
    /\ sent = [c \in Conns |-> <<>>]
    /\ nread = [c \in Conns |-> 0]
    /\ wpc = [c \in Conns |-> "none"]
    /\ cur = [c \in Conns |-> None]
    /\ res = [c \in Conns |-> NoRet]
    /\ out = [c \in Conns |-> <<>>]
    /\ wexit = [c \in Conns |-> "none"]
    /\ hostPath \in HostPaths
    /\ fs \in {"free", "taken", "noparent"}
    /\ status = NoRet
    /\ derived = NoRet
    /\ handle = NoRet
    /\ startRet = NoRet
    /\ endpoint = None
    /\ tpc = "none"
    /\ relay = "none"
    /\ tret = NoRet
    /\ registry = None
    /\ ColIdle

\* an install that gives up when the schema of the plugin cannot be read
Install_fail_on_columns ==
    /\ crate = "osquery"
    /\ handle = NoRet
    /\ IF plugin.columns.tag = "Err"
       THEN /\ handle' = ApplicationError("InternalError", <<"Failed to generate routes: ", plugin.columns.message>>)
            /\ UNCHANGED <<registry, status, derived>>
       ELSE /\ registry' = Some(Registry(NAME, routes(plugin)))
            /\ \E reply \in HostReplies :
                  /\ status' = reply
                  /\ derived' = install(hostPath, reply).derived
                  /\ handle' = install(hostPath, reply).handle
    /\ UNCHANGED colVars
    /\ UNCHANGED <<hostPath, fs, startRet, endpoint, tpc, relay, tret>>
    /\ UNCHANGED callVars
    /\ UNCHANGED srvVars

\* osquery: Plugin::install
Install ==
    /\ crate = "osquery"
    /\ handle = NoRet
    /\ registry' = Some(Registry(NAME, routes(plugin)))
    /\ \E reply \in HostReplies :
          /\ status' = reply
          /\ derived' = install(hostPath, reply).derived
          /\ handle' = install(hostPath, reply).handle
    /\ UNCHANGED colVars
    /\ UNCHANGED <<hostPath, fs, startRet, endpoint, tpc, relay, tret>>
    /\ UNCHANGED callVars
    /\ UNCHANGED srvVars

\* osquery-thrift: Client::register_table
RegisterTable ==
    /\ crate = "osquery-thrift"
    /\ handle = NoRet
    /\ registry' = Some(Registry(ThriftRegistryKey, thrift_routes(plugin.columns.val)))
    /\ \E reply \in HostReplies :
          /\ status' = reply
          /\ handle' = register_table(hostPath, reply)
    /\ UNCHANGED colVars
    /\ UNCHANGED <<hostPath, fs, derived, startRet, endpoint, tpc, relay, tret>>
    /\ UNCHANGED callVars
    /\ UNCHANGED srvVars

\* UnixListener::bind on a path whose file system state is f
bind_error(f) ==
    IF f = "taken"
    THEN IoError("AddrInUse", <<"Address already in use">>)
    ELSE IoError("NotFound", <<"No such file or directory">>)

\* osquery: Handle::start: bind, then spawn the acceptor thread
StartOsquery ==
    /\ crate = "osquery"
    /\ handle.tag = "Ok"
    /\ startRet = NoRet
    /\ IF fs = "free"
       THEN /\ endpoint' = Some(handle.val.socket_path)
            /\ acceptor' = "accepting"
            /\ startRet' = Ok("JoinHandle")
       ELSE /\ startRet' = bind_error(fs)
            /\ UNCHANGED <<endpoint, acceptor>>
    /\ UNCHANGED colVars
    /\ UNCHANGED <<registry, hostPath, fs, status, derived, handle, tpc, relay, tret>>
    /\ UNCHANGED <<conn, peerClosed, sent, nread, wpc, cur, res, out, wexit>>
    /\ UNCHANGED callVars

\* osquery-thrift: Handle::start: spawn the thread and return its JoinHandle
StartThrift ==
    /\ crate = "osquery-thrift"
    /\ handle.tag = "Ok"
    /\ startRet = NoRet
    /\ startRet' = Ok("JoinHandle")
    /\ tpc' = "setup"
    /\ UNCHANGED colVars
    /\ UNCHANGED <<registry, hostPath, fs, status, derived, handle, endpoint, relay, tret>>
    /\ UNCHANGED callVars
    /\ UNCHANGED srvVars

\* osquery-thrift, the spawned thread: derive the endpoint, build the
\* TServer and spawn the thread that listens on localhost:port
ThriftSetup ==
    /\ tpc = "setup"
    /\ derived' = thrift_socket_path(handle.val.socket_path, handle.val.uuid)
    /\ IF derived'.tag = "Ok"
       THEN /\ relay' = "spawned"
            /\ tpc' = "bind"
            /\ tret' = tret
       ELSE /\ tret' = derived'
            /\ tpc' = "done"
            /\ relay' = relay
    /\ UNCHANGED colVars
    /\ UNCHANGED <<registry, hostPath, fs, status, handle, startRet, endpoint>>
    /\ UNCHANGED callVars
    /\ UNCHANGED srvVars

\* osquery-thrift, the relay thread: server.listen(&addr) binds the port,
\* or fails to
RelayListen ==
    /\ relay = "spawned"
    /\ relay' \in {"listening", "failed"}
    /\ UNCHANGED colVars
    /\ UNCHANGED <<registry, hostPath, fs, status, derived, handle, startRet, endpoint, tpc, tret>>
    /\ UNCHANGED callVars
    /\ UNCHANGED srvVars

\* osquery-thrift, the spawned thread: UnixListener::bind(socket_path)?
ThriftBind ==
    /\ tpc = "bind"
    /\ IF fs = "free"
       THEN /\ endpoint' = Some(derived.val)
            /\ acceptor' = "accepting"
            /\ tpc' = "serving"
            /\ tret' = tret
       ELSE /\ tret' = bind_error(fs)
            /\ tpc' = "done"
            /\ UNCHANGED <<endpoint, acceptor>>
    /\ UNCHANGED colVars
    /\ UNCHANGED <<registry, hostPath, fs, status, derived, handle, startRet, relay>>
    /\ UNCHANGED <<conn, peerClosed, sent, nread, wpc, cur, res, out, wexit>>
    /\ UNCHANGED callVars

\* an accept loop that takes a connection only once the relay has come up
ThriftAccept_waits_for_relay(c) ==
    /\ crate = "osquery-thrift"
    /\ acceptor = "accepting"
    /\ conn[c] = "pending"
    /\ \A d \in Conns : d < c => conn[d] \in {"relayed", "dropped"}
    /\ relay # "spawned"
    /\ IF relay = "listening"
       THEN /\ conn' = [conn EXCEPT ![c] = "relayed"]
            /\ UNCHANGED <<acceptor, tpc, tret>>
       ELSE /\ acceptor' = "failed"
            /\ tpc' = "done"
            /\ tret' = IoError("ConnectionRefused", <<"Connection refused">>)
            /\ conn' = [conn EXCEPT ![c] = "dropped"]
    /\ UNCHANGED colVars
    /\ UNCHANGED <<registry, hostPath, fs, status, derived, handle, startRet, endpoint, relay>>
    /\ UNCHANGED <<peerClosed, sent, nread, wpc, cur, res, out, wexit>>
    /\ UNCHANGED callVars

\* osquery-thrift, the spawned thread: a connection is accepted and joined
\* to a new TCP connection to the relay by two copying threads; when that
\* TCP connection is refused the ? ends the thread, and the accepted stream
\* is dropped with it
ThriftAccept(c) ==
    /\ crate = "osquery-thrift"
    /\ acceptor = "accepting"
    /\ conn[c] = "pending"
    /\ \A d \in Conns : d < c => conn[d] \in {"relayed", "dropped"}
    /\ IF relay = "listening"
       THEN /\ conn' = [conn EXCEPT ![c] = "relayed"]
            /\ UNCHANGED <<acceptor, tpc, tret>>
       ELSE /\ acceptor' = "failed"
            /\ tpc' = "done"
            /\ tret' = IoError("ConnectionRefused", <<"Connection refused">>)
            /\ conn' = [conn EXCEPT ![c] = "dropped"]
    /\ UNCHANGED colVars
    /\ UNCHANGED <<registry, hostPath, fs, status, derived, handle, startRet, endpoint, relay>>
    /\ UNCHANGED <<peerClosed, sent, nread, wpc, cur, res, out, wexit>>
    /\ UNCHANGED callVars

NextReg ==
    \/ Install
    \/ RegisterTable
    \/ StartOsquery
    \/ StartThrift
    \/ ThriftSetup
    \/ RelayListen
    \/ ThriftBind
    \/ \E c \in Conns :
          \/ Connect(c)
          \/ ThriftAccept(c)
    \/ Send(1)
    \/ Accept(1)
    \/ WorkerSetup(1)
    \/ WorkerDecode(1)
    \/ WorkerDispatch(1)
    \/ WorkerEncode(1)

SpecReg == InitReg /\ [][NextReg]_vars

----------------------------------------------------------------------------
\* SpecCol: the constructors and conversions that column_types! generates
\* (the same in both crates)

\* the constructors, named after the variants in snake case
Ctors == {"text", "integer", "big_int", "double"}

\* ColumnValue::text(v), ::integer(v), ::big_int(v), ::double(v):
\* Self::from(v.into()), and From<$kind> wraps the value in its variant
ColumnValue_new(ctor, v) ==
    CASE ctor = "text" -> ColumnValue("Text", v)
      [] ctor = "integer" -> ColumnValue("Integer", v)
      [] ctor = "big_int" -> ColumnValue("BigInt", v)
      [] ctor = "double" -> ColumnValue("Double", v)

\* a conversion that knows one integer type only
ColumnType_from_one_integer(cv) ==
    CASE cv.kind = "Text" -> "Text"
      [] cv.kind = "Integer" -> "BigInt"
      [] cv.kind = "BigInt" -> "BigInt"
      [] cv.kind = "Double" -> "Double"

\* impl From<ColumnValue> for ColumnType: one arm per variant
ColumnType_from(cv) ==
    CASE cv.kind = "Text" -> "Text"
      [] cv.kind = "Integer" -> "Integer"
      [] cv.kind = "BigInt" -> "BigInt"
      [] cv.kind = "Double" -> "Double"

\* Column::text(name), ::integer(name), ::big_int(name), ::double(name)
Column_new(ctor, name) ==
    CASE ctor = "text" -> Column(name, "Text")
      [] ctor = "integer" -> Column(name, "Integer")
      [] ctor = "big_int" -> Column(name, "BigInt")
      [] ctor = "double" -> Column(name, "Double")

\* values of the type each constructor takes
CtorValues(ctor) ==
    CASE ctor = "text" -> {"", "hello_world"}
      [] ctor = "integer" -> {0, 123, 0 - 7}
      [] ctor = "big_int" -> {0, 0 - 123456789}
      [] ctor = "double" -> {Double(FALSE, 2, <<>>), Double(TRUE, 0, <<5>>)}

ColumnNames == {"", "text", "big_int"}

\* a ColumnValue is built
NewValue ==
    /\ \E ctor \in Ctors : \E v \in CtorValues(ctor) :
          cvalue' = Some([ctor |-> ctor, value |-> ColumnValue_new(ctor, v)])
    /\ ctype' = None
    /\ column' = column
    /\ UNCHANGED callVars
    /\ UNCHANGED srvVars
    /\ UNCHANGED regVars

\* the ColumnValue is converted into its ColumnType
Project ==
    /\ cvalue # None
    /\ ctype' = Some(ColumnType_from(cvalue[1].value))
    /\ UNCHANGED <<cvalue, column>>
    /\ UNCHANGED callVars
    /\ UNCHANGED srvVars
    /\ UNCHANGED regVars

\* a Column is built
NewColumn ==
    /\ \E ctor \in Ctors : \E name \in ColumnNames :
          column' = Some([ctor |-> ctor, column |-> Column_new(ctor, name)])
    /\ UNCHANGED <<cvalue, ctype>>
    /\ UNCHANGED callVars
    /\ UNCHANGED srvVars
    /\ UNCHANGED regVars

NextCol ==
    \/ NewValue
    \/ Project
    \/ NewColumn

SpecCol == Init /\ [][NextCol]_vars

----------------------------------------------------------------------------
\* Vocabulary of the properties

\* the text names x: x is one of its fragments
Names(message, x) == \E i \in 1..Len(message) : message[i] = x

HasKey(req, key) == key \in DOMAIN req

\* the context key holds a text that decodes into a QueryContext
DecodableContext(req) == HasKey(req, "context") /\ from_str(req["context"]).tag = "Ok"

\* the payload of a success response
Payload(r) == r.val.response[1]

----------------------------------------------------------------------------
\* Properties of one handler invocation (SpecCall)

\* C1: for every request without an action key, handle_call (of either crate)
\* returns a fault of kind ProtocolError whose message names the field action;
\* it is no success response and no panic, and no plugin operation is invoked.
C1_MissingActionIsProtocolFault ==
    (crate # "none" /\ op = "call" /\ ~HasKey(request, "action")) =>
        /\ ret.tag = "Err"
        /\ ret.kind = "ProtocolError"
        /\ Names(ret.message, "action")
        /\ invoked = <<>>

\* C2: a call with action = "columns" whose context is missing or undecodable
\* returns a success response carrying the schema of the plugin, not a fault.
C2_ColumnsNeedsNoContext ==
    (/\ crate = "osquery" /\ op = "call"
     /\ HasKey(request, "action") /\ request["action"] = "columns"
     /\ ~DecodableContext(request)
     /\ plugin.columns.tag = "Ok") =>
        /\ ret.tag = "Ok"
        /\ Payload(ret) = columns_output(plugin.columns.val)

\* C3: for every request whose action is neither "generate" nor "columns",
\* with or without a decodable context, handle_call returns a ProtocolFault of
\* kind NotImplemented naming the action and the plugin kind "table", and
\* invokes no plugin operation.
C3_OtherActionNotImplemented ==
    (/\ crate = "osquery" /\ op = "call"
     /\ HasKey(request, "action")
     /\ request["action"] \notin {"generate", "columns"}) =>
        /\ ret.tag = "Err"
        /\ ret.class = "Protocol"
        /\ ret.kind = "NotImplemented"
        /\ Names(ret.message, request["action"])
        /\ Names(ret.message, "table")
        /\ invoked = <<>>

\* C4: for every request with action = "generate" whose context is present
\* but undecodable, handle_call (of either crate) returns a fault of kind
\* ProtocolError that carries the decode error, and generate is not invoked.
C4_UndecodableContextIsProtocolFault ==
    (/\ crate # "none" /\ op = "call"
     /\ HasKey(request, "action") /\ request["action"] = "generate"
     /\ HasKey(request, "context") /\ from_str(request["context"]).tag = "Err") =>
        /\ ret.tag = "Err"
        /\ ret.kind = "ProtocolError"
        /\ Names(ret.message, from_str(request["context"]).message)
        /\ invoked = <<>>

\* C5: a successful call with action = "columns" returns exactly one entry
\* per column of columns(), in the same order, each a map with exactly the keys
\* name and type holding the name of the column and the string form of its
\* type; generate is not invoked.
C5_ColumnsPayload ==
    (/\ crate = "osquery" /\ op = "call"
     /\ HasKey(request, "action") /\ request["action"] = "columns"
     /\ ret.tag = "Ok") =>
        /\ plugin.columns.tag = "Ok"
        /\ Len(Payload(ret)) = Len(plugin.columns.val)
        /\ \A i \in 1..Len(plugin.columns.val) :
              /\ DOMAIN Payload(ret)[i] = {"name", "type"}
              /\ Payload(ret)[i]["name"] = plugin.columns.val[i].name
              /\ Payload(ret)[i]["type"] \in {"TEXT", "INTEGER", "BIGINT", "DOUBLE"}
              /\ Payload(ret)[i]["type"] = ColumnType_to_string(plugin.columns.val[i].kind)
        /\ invoked = <<"columns">>

C5_Witness ==
    /\ crate = "osquery" /\ op = "call"
    /\ HasKey(request, "action") /\ request["action"] = "columns"
    /\ ret.tag = "Ok"
    /\ Len(Payload(ret)) = 4
    /\ Payload(ret)[3] = [k \in {"name", "type"} |-> IF k = "name" THEN "big_int" ELSE "BIGINT"]

\* C6: every outcome of handle_call is either a response with the success
\* status code and a payload, or a fault without a payload; never both, and
\* never a success status without a payload.
C6_ResponseXorFault ==
    (crate = "osquery" /\ op = "call") =>
        \/ /\ ret.tag = "Ok"
           /\ Len(ret.val.status) = 1
           /\ ret.val.status[1].code = Some(ExtSuccess)
           /\ ret.val.response # None
        \/ /\ ret.tag = "Err"
           /\ DOMAIN ret = {"tag", "class", "kind", "message"}

C6_Witness ==
    /\ crate = "osquery" /\ op = "call"
    /\ ret.tag = "Ok"
    /\ request["action"] = "generate"
    /\ Len(Payload(ret)) = 2

\* C7: when action = "generate", the context decodes and generate of the
\* plugin reports a failure, handle_call returns an ApplicationFault of kind
\* InternalError whose message is the message of the plugin, and no payload.
C7_PluginFailureIsInternalError ==
    (/\ crate = "osquery" /\ op = "call"
     /\ HasKey(request, "action") /\ request["action"] = "generate"
     /\ DecodableContext(request)
     /\ plugin.generate.tag = "Err") =>
        /\ ret.tag = "Err"
        /\ ret.class = "Application"
        /\ ret.kind = "InternalError"
        /\ ret.message = <<plugin.generate.message>>
        /\ "val" \notin DOMAIN ret

C7_Witness ==
    /\ crate = "osquery" /\ op = "call"
    /\ HasKey(request, "action") /\ request["action"] = "generate"
    /\ DecodableContext(request)
    /\ plugin.generate.tag = "Err"
    /\ ret.tag = "Err"
    /\ invoked = <<"generate">>

\* C12: handle_ping (of either crate) always returns the success status with
\* the message "OK" and no route id, whatever the plugin would answer, and it
\* invokes no plugin operation and leaves the request and the plugin as they
\* were.
C12_PingAlwaysOk ==
    /\ [](op = "ping" =>
            /\ ret.tag = "Ok"
            /\ ret.val.code = Some(ExtSuccess)
            /\ ret.val.message = Some("OK")
            /\ ret.val.uuid = None
            /\ invoked = <<>>)
    /\ [][op' = "ping" =>
            /\ op = "none"
            /\ request' = request
            /\ plugin' = plugin
            /\ UNCHANGED srvVars]_vars

C12_Witness ==
    /\ op = "ping"
    /\ crate = "osquery"
    /\ plugin.generate.tag = "Err"
    /\ plugin.columns.tag = "Err"
    /\ ret.tag = "Ok"

\* C13: handle_shutdown (of either crate) invokes the shutdown hook of the
\* plugin and reports success; it returns no fault and does not panic.
C13_ShutdownAlwaysOk ==
    op = "shutdown" =>
        /\ ret.tag = "Ok"
        /\ invoked = <<"shutdown">>

\* C20: a successful call with action = "generate" returns one string-keyed
\* map per Row of the plugin, in the order of the plugin, each with the key
\* set of its Row and each value the canonical string of the ColumnValue: text
\* unmodified, integers in decimal; the row {text: "hello_world", integer: 123,
\* big_int: -123456789} yields "hello_world", "123", "-123456789".
C20_GeneratePayload ==
    (/\ crate = "osquery" /\ op = "call"
     /\ HasKey(request, "action") /\ request["action"] = "generate"
     /\ ret.tag = "Ok") =>
        /\ plugin.generate.tag = "Ok"
        /\ invoked = <<"generate">>
        /\ Len(Payload(ret)) = Len(plugin.generate.val)
        /\ \A i \in 1..Len(plugin.generate.val) :
              LET row == plugin.generate.val[i]
                  got == Payload(ret)[i]
              IN /\ DOMAIN got = DOMAIN row
                 /\ \A k \in DOMAIN row :
                       /\ row[k].kind = "Text" => got[k] = row[k].v
                       /\ row[k].kind \in {"Integer", "BigInt"} =>
                             got[k] = IntToString(row[k].v)
                 /\ row = Row1 =>
                       got = [k \in {"text", "integer", "big_int"} |->
                                CASE k = "text" -> "hello_world"
                                  [] k = "integer" -> "123"
                                  [] k = "big_int" -> "-123456789"]
                 /\ row = Row2 =>
                       got = [k \in {"text", "integer"} |->
                                IF k = "text" THEN "" ELSE "-7"]

C20_Witness ==
    /\ crate = "osquery" /\ op = "call"
    /\ HasKey(request, "action") /\ request["action"] = "generate"
    /\ ret.tag = "Ok"
    /\ plugin.generate.val = <<Row2, Row1>>
    /\ Payload(ret)[2]["big_int"] = "-123456789"
    /\ Payload(ret)[1]["integer"] = "-7"

----------------------------------------------------------------------------
\* Properties of the worker loop on one connection (SpecConn)

\* a call the handler answers with a ProtocolFault: a required field is
\* missing, the context does not decode, or the action is not supported
IsFaultyCall(m) ==
    /\ m.method = "call"
    /\ \/ ~HasKey(m.request, "action")
       \/ ~DecodableContext(m.request)
       \/ m.request["action"] \notin {"generate", "columns"}

\* C8: a call that ends in a ProtocolFault or an ApplicationFault does not
\* terminate its connection: the fault is written as the reply to that call
\* on the same connection and the worker goes back to decoding; a worker whose
\* loop has ended has a peer that closed, or has read bytes that are no message.
C8_FaultKeepsConnection ==
    \A c \in Conns :
        /\ wpc[c] = "done" =>
              \/ peerClosed[c]
              \/ wexit[c] = "clone_failed"
              \/ nread[c] > 0 /\ sent[c][nread[c]] = Garbage
        /\ wpc[c] = "decode" => Len(out[c]) = nread[c]
        /\ \A k \in 1..Len(out[c]) :
              /\ out[c][k].seq = sent[c][k].seq
              /\ IsFaultyCall(sent[c][k]) =>
                    /\ out[c][k].type = "Exception"
                    /\ out[c][k].body.kind \in {"ProtocolError", "Unknown"}
              /\ out[c][k].type = "Exception" /\ ~IsFaultyCall(sent[c][k]) =>
                    out[c][k].body.kind = "InternalError"

C8_Witness ==
    \E c \in Conns :
        /\ Len(out[c]) = 2
        /\ out[c][1].type = "Exception" /\ out[c][1].body.kind = "InternalError"
        /\ out[c][2].type = "Exception" /\ out[c][2].body.kind = "Unknown"
        /\ wpc[c] = "decode"
        /\ ~peerClosed[c]

\* C10: on one connection the calls are served in arrival order without
\* pipelining: at most one decoded call is unanswered, a call is decoded only
\* when every earlier one has its reply written, and the k-th reply is a
\* reply to the k-th call.
C10_InOrderNoPipelining ==
    \A c \in Conns :
        /\ Len(out[c]) <= nread[c]
        /\ nread[c] <= Len(out[c]) + 1
        /\ wpc[c] \in {"dispatch", "encode"} =>
              /\ nread[c] = Len(out[c]) + 1
              /\ cur[c] = Some(sent[c][nread[c]])
        /\ wpc[c] \in {"none", "setup", "decode"} => nread[c] = Len(out[c])
        /\ \A k \in 1..Len(out[c]) :
              out[c][k] \in { reply_for(sent[c][k], handler_result(sent[c][k], plug)) :
                                plug \in SrvPlugins }

C10_Witness ==
    \E c \in Conns :
        /\ Len(out[c]) = 2
        /\ sent[c][1].method = "call" /\ out[c][1].method = "call" /\ out[c][1].type = "Reply"
        /\ sent[c][2].method = "ping" /\ out[c][2].method = "ping" /\ out[c][2].seq = 2

----------------------------------------------------------------------------
\* Properties of the acceptor and its workers (Spec)

\* C9: a worker whose peer closed after everything it sent was served ends
\* on end-of-stream, not on an error; and the step in which a worker ends,
\* for whatever reason, changes neither the acceptor nor any other connection
\* or its worker.
C9_WorkerExitIsLocal ==
    /\ [](\A c \in Conns :
            /\ (/\ wpc[c] = "done"
                /\ wexit[c] # "clone_failed"
                /\ nread[c] = Len(sent[c])
                /\ Len(out[c]) = nread[c]) => wexit[c] = "eof"
            /\ wexit[c] = "eof" => peerClosed[c])
    /\ [][\A c \in Conns :
            (wpc[c] # "done" /\ wpc'[c] = "done") =>
                /\ acceptor' = acceptor
                /\ \A d \in Conns \ {c} :
                      /\ conn'[d] = conn[d]
                      /\ wpc'[d] = wpc[d]
                      /\ wexit'[d] = wexit[d]
                      /\ out'[d] = out[d]]_vars

C9_Witness ==
    \E c, d \in Conns :
        /\ c # d
        /\ wpc[c] = "done" /\ wexit[c] = "error"
        /\ acceptor = "accepting"
        /\ wpc[d] = "decode" /\ Len(out[d]) = 1

\* what the worker of connection c owns changes in this step
WorkerStateChanges(c) ==
    \/ nread'[c] # nread[c]
    \/ wpc'[c] # wpc[c]
    \/ cur'[c] # cur[c]
    \/ res'[c] # res[c]
    \/ out'[c] # out[c]
    \/ wexit'[c] # wexit[c]

\* C11: with several connections open on the same endpoint and their calls
\* interleaved, every reply is written to the connection on which its call
\* arrived and is a reply to that call; a step of one worker changes nothing
\* that another worker owns, and no step changes the plugin.
C11_NoCrossTalk ==
    /\ [](\A c \in Conns :
            /\ Len(out[c]) <= nread[c]
            /\ \A k \in 1..Len(out[c]) :
                  \E plug \in SrvPlugins :
                      out[c][k] = reply_for(sent[c][k], handler_result(sent[c][k], plug)))
    /\ [][/\ plugin' = plugin
          /\ \A c \in Conns :
                WorkerStateChanges(c) =>
                    \A d \in Conns \ {c} : ~WorkerStateChanges(d)]_vars

C11_Witness ==
    \E c, d \in Conns :
        /\ c # d
        /\ Len(out[c]) = 1 /\ out[c][1].type = "Exception"
        /\ Len(out[d]) = 1 /\ out[d][1].type = "Reply"
        /\ ~peerClosed[c] /\ ~peerClosed[d]

\* C24: an error of accept ends the acceptor thread with that error and
\* ends nothing else: no connection is accepted afterwards, and the workers
\* spawned before keep their state and can take their next step.
C24_AcceptErrorEndsAcceptorOnly ==
    /\ [][(acceptor = "accepting" /\ acceptor' # "accepting") =>
            /\ acceptor' = "failed"
            /\ UNCHANGED <<conn, nread, wpc, cur, res, out, wexit>>]_vars
    /\ [][acceptor = "failed" =>
            /\ acceptor' = "failed"
            /\ conn' = conn]_vars
    /\ [](acceptor = "failed" =>
            \A c \in Conns :
                /\ wpc[c] = "setup" => ENABLED WorkerSetup(c)
                /\ (wpc[c] = "decode" /\ nread[c] < Len(sent[c])) => ENABLED WorkerDecode(c)
                /\ wpc[c] = "dispatch" => ENABLED WorkerDispatch(c)
                /\ wpc[c] = "encode" => ENABLED WorkerEncode(c))

C24_Witness ==
    \E c, d \in Conns :
        /\ acceptor = "failed"
        /\ conn[c] = "accepted" /\ Len(out[c]) = 1 /\ wpc[c] = "decode"
        /\ conn[d] = "pending" /\ wpc[d] = "none"

----------------------------------------------------------------------------
\* A stalled connection (SpecStall)

\* C23: a worker has no idle timeout, and a connection that never sends a
\* complete call holds only its own worker: that worker stays blocked in
\* decode, every other connection is accepted, and every call on another
\* connection is answered.
C23_StalledConnectionIsLocal ==
    /\ [][(wpc[1] = "decode" /\ sent[1] = <<>>) => wpc'[1] = "decode"]_vars
    /\ \A c \in Conns \ {1} :
          /\ (conn[c] = "pending") ~> (conn[c] = "accepted")
          /\ \A k \in 1..MaxMsgs :
                (Len(sent[c]) >= k) ~> (Len(out[c]) >= k /\ out[c][k].seq = k)

C23_Witness ==
    /\ conn[1] = "accepted"
    /\ wpc[1] = "decode"
    /\ sent[1] = <<>>
    /\ \E c \in Conns \ {1} :
          /\ Len(sent[c]) = MaxMsgs
          /\ Len(out[c]) = MaxMsgs

----------------------------------------------------------------------------
\* Properties of registration and startup (SpecReg)

\* the host answered, and its answer carries this route id
RouteId == status.val.uuid[1]

\* C14: when the host's answer to the registration carries no route id,
\* install / register_table returns an ApplicationError of kind
\* ProtocolError and no Handle: no endpoint is derived, nothing is bound and
\* nothing is started.
C14_NoRouteIdIsProtocolFault ==
    (status # NoRet /\ status.tag = "Ok" /\ status.val.uuid = None) =>
        /\ handle.tag = "Err"
        /\ handle.class = "Application"
        /\ handle.kind = "ProtocolError"
        /\ derived = NoRet
        /\ endpoint = None
        /\ startRet = NoRet
        /\ acceptor = "unstarted"
        /\ tpc = "none"

C14_Witness ==
    /\ crate = "osquery"
    /\ status # NoRet /\ status.tag = "Ok"
    /\ status.val.uuid = None
    /\ status.val.code = Some(ExtSuccess)
    /\ handle.tag = "Err"

\* C15: when the host's answer carries a status code other than the success
\* constant, with or without a route id, the registration returns a failure
\* that carries the host's message, and no Handle.
C15_HostFailureIsPropagated ==
    (/\ status # NoRet /\ status.tag = "Ok"
     /\ status.val.code # None
     /\ status.val.code # Some(ExtSuccess)) =>
        /\ handle.tag = "Err"
        /\ status.val.message # None => Names(handle.message, status.val.message[1])
        /\ endpoint = None

\* C16: from a host path with a final component the derived endpoint keeps
\* the parent directory and ends in the host path's final component, a dot
\* and the decimal route id (/home/user/.host/shell.em and 42 give
\* /home/user/.host/shell.em.42); a host path without final component gives
\* an error; the derivation depends on the host path and the route id only
\* and touches neither the file system nor the listener.
C16_DerivedEndpoint ==
    /\ [](derived # NoRet =>
            LET n == Len(hostPath.comps)
            IN IF n > 0 /\ hostPath.comps[n] # ".."
               THEN /\ derived.tag = "Ok"
                    /\ derived.val.root = hostPath.root
                    /\ Len(derived.val.comps) = n
                    /\ \A i \in 1..(n - 1) : derived.val.comps[i] = hostPath.comps[i]
                    /\ derived.val.comps[n] = hostPath.comps[n] \o "." \o IntToString(RouteId)
                    /\ (hostPath = ShellEm /\ RouteId = 42) =>
                          PathToString(derived.val) = "/home/user/.host/shell.em.42"
                    /\ (hostPath = ShellEm /\ RouteId = -3) =>
                          PathToString(derived.val) = "/home/user/.host/shell.em.-3"
                    /\ (hostPath.comps = <<"osquery.em">> /\ RouteId = 7) =>
                          PathToString(derived.val) = "osquery.em.7"
               ELSE derived.tag = "Err")
    /\ [][derived' # derived =>
            /\ derived = NoRet
            /\ endpoint' = endpoint
            /\ acceptor' = acceptor
            /\ fs' = fs
            /\ hostPath' = hostPath]_vars

C16_Witness ==
    /\ crate = "osquery"
    /\ hostPath = ShellEm
    /\ derived # NoRet /\ derived.tag = "Ok"
    /\ RouteId = 42
    /\ PathToString(derived.val) = "/home/user/.host/shell.em.42"
    /\ handle = Ok([socket_path |-> derived.val])

\* C17: when the bind at the derived endpoint fails (address in use, or no
\* parent directory), start returns that failure to its caller: no acceptor
\* thread or other thread is spawned and no connection is accepted.
C17_BindFailureIsReturned ==
    (/\ startRet # NoRet
     /\ fs # "free"
     /\ file_name(hostPath) # None) =>
        /\ startRet.tag = "Err"
        /\ startRet.class = "Io"
        /\ startRet.kind = IF fs = "taken" THEN "AddrInUse" ELSE "NotFound"
        /\ acceptor = "unstarted"
        /\ tpc = "none"
        /\ relay = "none"
        /\ endpoint = None
        /\ \A c \in Conns : conn[c] = "idle"

\* C18: startup is ordered: the host answers the registration with a route
\* id, then the endpoint is derived, then it is bound, and only then is a
\* connection accepted or a call dispatched; registration and bind happen
\* once, and both are complete when start has returned.
C18_StartupOrder ==
    /\ [](/\ derived # NoRet =>
                status # NoRet /\ status.tag = "Ok" /\ status.val.uuid # None
          /\ endpoint # None =>
                derived # NoRet /\ derived.tag = "Ok" /\ endpoint = Some(derived.val)
          /\ (\E c \in Conns : conn[c] \notin {"idle", "pending"} \/ nread[c] > 0) =>
                endpoint # None
          /\ (startRet # NoRet /\ startRet.tag = "Ok") =>
                /\ status # NoRet
                /\ endpoint # None
                /\ acceptor # "unstarted")
    /\ [][/\ status' # status => status = NoRet
          /\ endpoint' # endpoint => endpoint = None /\ startRet.tag # "Ok"]_vars

----------------------------------------------------------------------------
\* Shutdown of a started extension (SpecConn)

\* a shutdown call has been answered on connection c
ShutdownServed(c) ==
    \E k \in 1..Len(out[c]) : sent[c][k].method = "shutdown"

\* C19: once a shutdown call has been served, or the acceptor has ended, the
\* socket file of the extension is gone and no connection is accepted any
\* more.
C19_EndpointUnlinkedAtShutdown ==
    ((\E c \in Conns : ShutdownServed(c)) \/ acceptor = "failed") =>
        /\ endpoint = None
        /\ acceptor # "accepting"

----------------------------------------------------------------------------
\* The registry sent to the host (SpecReg)

\* the route descriptor the host expects for a column
RouteOf(col) ==
    [k \in {"id", "name", "type", "op"} |->
        CASE k = "id" -> "column"
          [] k = "name" -> col.name
          [] k = "type" -> (CASE col.kind = "Text" -> "TEXT"
                              [] col.kind = "Integer" -> "INTEGER"
                              [] col.kind = "BigInt" -> "BIGINT"
                              [] col.kind = "Double" -> "DOUBLE")
          [] k = "op" -> "0"]

\* C21: the registry sent with the registration is {"table": {name: routes}}
\* where name is the name of the registering plugin, and routes holds one
\* descriptor per column of the schema, in schema order, each with id
\* "column", the name of the column, its type, and op "0".
C21_RegistryShape ==
    registry # None =>
        /\ DOMAIN registry[1] = {"table"}
        /\ DOMAIN registry[1]["table"] = {NAME}
        /\ plugin.columns.tag = "Ok" =>
              /\ Len(registry[1]["table"][NAME]) = Len(plugin.columns.val)
              /\ \A i \in 1..Len(plugin.columns.val) :
                    registry[1]["table"][NAME][i] = RouteOf(plugin.columns.val[i])

\* C25: when columns() fails while the routes are built, install still
\* registers the table, with an empty list of routes, and its outcome is the
\* one the answer of the host gives: a Handle when the answer carries a route
\* id and the endpoint can be derived.
C25_ColumnsFailureIsSwallowed ==
    (crate = "osquery" /\ plugin.columns.tag = "Err" /\ handle # NoRet) =>
        /\ status # NoRet
        /\ registry = Some(Registry(NAME, <<>>))
        /\ (status.tag = "Ok" /\ status.val.uuid # None /\ file_name(hostPath) # None) =>
              handle.tag = "Ok"
        /\ status.tag = "Err" => handle = status

C25_Witness ==
    /\ crate = "osquery"
    /\ plugin.columns.tag = "Err"
    /\ registry # None
    /\ registry[1]["table"][NAME] = <<>>
    /\ handle # NoRet
    /\ handle.tag = "Ok"
    /\ endpoint # None

----------------------------------------------------------------------------
\* Properties of the column types (SpecCol)

\* the ColumnType that belongs to a constructor
KindOf(ctor) ==
    CASE ctor = "text" -> "Text"
      [] ctor = "integer" -> "Integer"
      [] ctor = "big_int" -> "BigInt"
      [] ctor = "double" -> "Double"

\* C22: a ColumnValue built with the constructor of a kind converts into the
\* ColumnType of that kind, and a Column built with the constructor of a kind
\* declares that ColumnType, so that the two agree whenever they were built
\* for the same kind; every ColumnValue has a ColumnType.
C22_ValueTypeIsColumnType ==
    /\ ctype # None =>
          /\ cvalue # None
          /\ ctype[1] = KindOf(cvalue[1].ctor)
    /\ column # None => column[1].column.kind = KindOf(column[1].ctor)
    /\ (ctype # None /\ column # None /\ cvalue[1].ctor = column[1].ctor) =>
          ctype[1] = column[1].column.kind
    /\ cvalue # None => ColumnType_from(cvalue[1].value) \in ColumnTypes

C22_Witness ==
    /\ cvalue # None /\ ctype # None /\ column # None
    /\ cvalue[1].ctor = "integer"
    /\ column[1].ctor = "integer"
    /\ ctype = Some("Integer")
    /\ column[1].column.kind = "Integer"

----------------------------------------------------------------------------
\* The accept loop of osquery-thrift and its relay (SpecReg)

\* C26: the relay is started in its own thread and the accept loop does not
\* wait for it: a pending connection is taken whether or not the relay is
\* listening; when the TCP connection to the relay is refused the whole
\* thread ends with that error, and no connection is taken afterwards.
C26_RelayRace ==
    /\ [](crate = "osquery-thrift" =>
            \A c \in Conns :
                /\ (/\ acceptor = "accepting"
                    /\ conn[c] = "pending"
                    /\ \A d \in Conns : d < c => conn[d] = "relayed") =>
                        ENABLED ThriftAccept(c)
                /\ conn[c] = "relayed" => relay = "listening"
                /\ conn[c] = "dropped" =>
                      /\ acceptor = "failed"
                      /\ tpc = "done"
                      /\ tret = IoError("ConnectionRefused", <<"Connection refused">>))
    /\ [][(crate = "osquery-thrift" /\ acceptor = "failed") =>
            /\ acceptor' = "failed"
            /\ conn' = conn]_vars

C26_Witness ==
    /\ crate = "osquery-thrift"
    /\ relay = "spawned"
    /\ conn[1] = "dropped"
    /\ \E c \in Conns : conn[c] = "pending"
    /\ acceptor = "failed"
    /\ tret.tag = "Err"

====
